---- MODULE Spec2Model ----
(***************************************************************************)
(* Turbopack development runtime (shared part): module registry, chunk     *)
(* graph tracker, loader and instantiator.                                 *)
(*                                                                         *)
(* Module ids are `string | number` in the source.  The model writes the   *)
(* number 1 as "n1" and the strings "1", "2" as "s1", "s2".  Plain objects *)
(* (moduleFactories, moduleCache, a chunk's chunkModules) coerce a key to  *)
(* its string form (PropKey); Map, Set and Array.indexOf compare the ids   *)
(* as they are, so 1 and "1" are different keys there.                     *)
(***************************************************************************)
EXTENDS Integers, Sequences, FiniteSets, TLC

\* ------------------------------------------------------------------ bounds
MaxRegistrations == 2
MaxMembershipOps == 2
MaxRuntimeCalls == 2
MaxRequires == 2
MaxLoads == 3

\* ---------------------------------------------------------------- universe
ModuleIds == {"n1", "s1", "s2"}
\* Property names of the plain objects: every id in its string form.
Keys == {"s1", "s2"}
Chunks == {"A", "B", "P"}
Factories == {"f1", "f2"}
\* What a factory may throw; `throw undefined` is legal JavaScript and leaves
\* module.error with the value it was created with.
Undefined == "undefined"
Thrown == {Undefined, "errA"}
MissingFactory == "missingFactory"
Truthy(v) == v # Undefined

\* Property-key coercion of a module id used as an object key.
PropKey(id) == IF id = "n1" THEN "s1" ELSE id

VARIABLES
  moduleFactories,    \* object: Keys -> factory (absent keys are not in DOMAIN)
  moduleChunksMap,    \* Map: module id -> insertion-ordered set of chunk paths
  chunkModulesMap,    \* Map: chunk path -> insertion-ordered set of module ids
  moduleCache,        \* object: Keys -> Module record
  runtimeModules,     \* Set of module ids
  stack,              \* the factories being executed, innermost last
  exc,                \* exception thrown into the innermost running factory
  firstFactory,       \* history: the factory of the first registerChunk per key
  factoryRuns,        \* history: executions of the factory, per key
  created,            \* history: Module records created, per key
  reinstantiated,     \* history: instantiateRuntimeModule calls on a cached key
  nextRid,            \* identity of the next Module record
  nRegs,              \* number of registerChunk calls made
  nOps,               \* number of direct membership operations and queries made
  nCalls,             \* number of runtime-module entry calls made
  availableModules,       \* Map: module id -> promise
  availableModuleChunks,  \* Map: chunk path -> promise
  promises,           \* every promise made by the loader, by identity
  backendCalls,       \* history: BACKEND.loadChunk invocations per chunk path
  fetchedLists,       \* history: included lists a fetching loadChunk was given
  lastLoad,           \* history: the last loadChunk call
  nLoads,             \* number of loadChunk calls made
  addedAt,            \* history: rank, by time of addition, of each current
                      \* membership among the chunks of its module
  ret                 \* the last completed call and what it returned or threw

registryVars == <<moduleFactories, firstFactory, nRegs>>
chunkVars == <<moduleChunksMap, chunkModulesMap, nOps, addedAt>>
instVars == <<moduleCache, runtimeModules, stack, exc, factoryRuns, created,
              reinstantiated, nextRid, nCalls>>
loadVars == <<availableModules, availableModuleChunks, promises, backendCalls,
              fetchedLists, lastLoad, nLoads>>
vars == <<registryVars, chunkVars, instVars, loadVars, ret>>

\* ----------------------------------------------------------------- helpers
Range(s) == {s[i] : i \in 1..Len(s)}

EmptyMap == [x \in {} |-> 0]
MapHas(m, k) == k \in DOMAIN m
MapSet(m, k, v) == [x \in (DOMAIN m) \cup {k} |-> IF x = k THEN v ELSE m[x]]
MapDelete(m, k) == [x \in (DOMAIN m) \ {k} |-> m[x]]

\* A JavaScript Set keeps insertion order: a sequence without duplicates.
SetAdd(s, x) == IF x \in Range(s) THEN s ELSE Append(s, x)
SetDelete(s, x) == SelectSeq(s, LAMBDA y : y # x)

NoRet ==
  [op |-> "none", id |-> "-", chunk |-> "-", threw |-> FALSE, val |-> FALSE,
   err |-> "-", rid |-> 0, hit |-> FALSE, loaded |-> FALSE,
   inProgress |-> FALSE, failed |-> FALSE, runsBefore |-> 0,
   declared |-> {}, conflict |-> FALSE,
   memberBefore |-> FALSE, idKnown |-> FALSE, chunkKnown |-> FALSE,
   changed |-> FALSE, fresh |-> FALSE,
   backendRegs |-> 0, seenFactories |-> {}, seenMembers |-> {},
   readded |-> FALSE]

\* SourceInfo: Runtime{chunkPath} | Parent{parentId} | Update{parents?}
RuntimeSource(chunkPath) == [type |-> "Runtime", arg |-> chunkPath, parents |-> <<>>]
ParentSource(parentId) == [type |-> "Parent", arg |-> parentId, parents |-> <<>>]
UpdateSource(parents) == [type |-> "Update", arg |-> "-", parents |-> parents]
\* An Update source whose optional `parents` is absent.
UpdateSourceNoParents == [type |-> "Update", arg |-> "noParents", parents |-> <<>>]

\* ----------------------------------------------------- chunk graph tracker
\* addModuleToChunk, first half: moduleChunksMap after the call.
AddToModuleChunksMutant(mc, moduleId, chunkPath) ==
  IF ~MapHas(mc, moduleId)
    THEN MapSet(mc, moduleId, <<chunkPath>>)
    ELSE MapSet(mc, moduleId, Append(mc[moduleId], chunkPath))
AddToModuleChunks(mc, moduleId, chunkPath) ==
  IF ~MapHas(mc, moduleId)
    THEN MapSet(mc, moduleId, <<chunkPath>>)
    ELSE MapSet(mc, moduleId, SetAdd(mc[moduleId], chunkPath))

\* addModuleToChunk, second half: chunkModulesMap after the call.
AddToChunkModules(cm, moduleId, chunkPath) ==
  IF ~MapHas(cm, chunkPath)
    THEN MapSet(cm, chunkPath, <<moduleId>>)
    ELSE MapSet(cm, chunkPath, SetAdd(cm[chunkPath], moduleId))

\* removeModuleFromChunk reads `moduleChunksMap.get(moduleId)!` and
\* `chunkModulesMap.get(chunkPath)!`; the `!` checks nothing at run time, so
\* calling `.delete` on a missing entry is a TypeError.
\* (variant: a membership check that the source does not make)
RemoveThrowsMutant(mc, cm, moduleId, chunkPath) ==
  ~MapHas(mc, moduleId) \/ ~MapHas(cm, chunkPath)
    \/ chunkPath \notin Range(mc[moduleId])
RemoveThrows(mc, cm, moduleId, chunkPath) ==
  ~MapHas(mc, moduleId) \/ ~MapHas(cm, chunkPath)

\* moduleChunksMap after removeModuleFromChunk.  `moduleChunks.delete` runs
\* before chunkModulesMap is read, so it has happened even when the second
\* lookup throws.
RemoveFromModuleChunks(mc, cm, moduleId, chunkPath) ==
  IF ~MapHas(mc, moduleId) THEN mc
  ELSE LET moduleChunks == SetDelete(mc[moduleId], chunkPath) IN
       IF ~MapHas(cm, chunkPath) THEN MapSet(mc, moduleId, moduleChunks)
       ELSE IF Len(moduleChunks) = 0 THEN MapDelete(mc, moduleId)
       ELSE MapSet(mc, moduleId, moduleChunks)

\* chunkModulesMap after removeModuleFromChunk.
RemoveFromChunkModulesMutant(mc, cm, moduleId, chunkPath) == cm
RemoveFromChunkModules(mc, cm, moduleId, chunkPath) ==
  IF RemoveThrows(mc, cm, moduleId, chunkPath) THEN cm
  ELSE LET chunkModules == SetDelete(cm[chunkPath], moduleId) IN
       IF Len(chunkModules) = 0 THEN MapDelete(cm, chunkPath)
       ELSE MapSet(cm, chunkPath, chunkModules)

\* getFirstModuleChunk(moduleId): null without an entry (`== null` is true of
\* the undefined that Map.get returns), else the first value of the Set, which
\* is undefined for an empty Set.
GetFirstModuleChunkMutant(mc, moduleId) ==
  IF ~MapHas(mc, moduleId) THEN "null"
  ELSE IF mc[moduleId] = <<>> THEN Undefined
  ELSE mc[moduleId][Len(mc[moduleId])]
GetFirstModuleChunk(mc, moduleId) ==
  IF ~MapHas(mc, moduleId) THEN "null"
  ELSE IF mc[moduleId] = <<>> THEN Undefined
  ELSE Head(mc[moduleId])

\* The value removeModuleFromChunk returns: noRemainingChunks.
NoRemainingChunks(mc, moduleId, chunkPath) ==
  Len(SetDelete(mc[moduleId], chunkPath)) = 0

\* ------------------------------------------------------ chunk registration
\* Object.entries(chunkModules): integer-like keys in ascending order.
Entries(chunkModules) ==
  LET ks == DOMAIN chunkModules IN
  (IF "s1" \in ks THEN <<"s1">> ELSE <<>>) \o (IF "s2" \in ks THEN <<"s2">> ELSE <<>>)

\* `if (!moduleFactories[moduleId]) moduleFactories[moduleId] = moduleFactory`
InstallFactoryMutant(mf, moduleId, moduleFactory) ==
  MapSet(mf, moduleId, moduleFactory)
InstallFactory(mf, moduleId, moduleFactory) ==
  IF ~MapHas(mf, moduleId) THEN MapSet(mf, moduleId, moduleFactory) ELSE mf

RECURSIVE RegisterFactories(_, _, _)
RegisterFactories(mf, chunkModules, entries) ==
  IF entries = <<>> THEN mf
  ELSE RegisterFactories(
         InstallFactory(mf, Head(entries), chunkModules[Head(entries)]),
         chunkModules, Tail(entries))

RECURSIVE RegisterModuleChunks(_, _, _)
RegisterModuleChunks(mc, chunkPath, entries) ==
  IF entries = <<>> THEN mc
  ELSE RegisterModuleChunks(
         AddToModuleChunks(mc, Head(entries), chunkPath), chunkPath, Tail(entries))

RECURSIVE RegisterChunkModules(_, _, _)
RegisterChunkModules(cm, chunkPath, entries) ==
  IF entries = <<>> THEN cm
  ELSE RegisterChunkModules(
         AddToChunkModules(cm, Head(entries), chunkPath), chunkPath, Tail(entries))

\* registerChunk: what BACKEND.registerChunk, called after the loop, finds: the
\* ids with a factory and the ids recorded as members of the chunk.
BackendRegisterChunkSeenMutant(mf, mc, chunkPath, chunkModules) ==
  [factories |-> DOMAIN mf,
   members |-> {k \in DOMAIN mc : chunkPath \in Range(mc[k])}]
BackendRegisterChunkSeen(mf, mc, chunkPath, chunkModules) ==
  LET factories == RegisterFactories(mf, chunkModules, Entries(chunkModules))
      chunks == RegisterModuleChunks(mc, chunkPath, Entries(chunkModules))
  IN
  [factories |-> DOMAIN factories,
   members |-> {k \in DOMAIN chunks : chunkPath \in Range(chunks[k])}]

\* The chunkModules objects a chunk may carry: a factory for some of the keys.
ChunkModules ==
  UNION {[ks -> Factories] : ks \in (SUBSET Keys) \ {{}}}

\* ------------------------------------------------------------------ loader
\* Values of a `Promise<any> | true | undefined` slot: a promise by identity
\* (1, 2, ...), or one of these two.
TrueValue == 0
UndefinedValue == -1

\* What BACKEND.loadChunk may reject with; the `error ? ... : ...` tests of
\* loadChunkPath tell a falsy value from the others.
RejectValues == {"netErr", "null"}
TruthyRejection(error) == error # "null"

NoErr == [chunk |-> "-", reason |-> "-", who |-> "-", cause |-> "-"]

\* loadChunkPath: `loadReason`, by the tag of `source`.
LoadReasonMutant(source) ==
  [text |-> "from an HMR update", who |-> "-"]
LoadReason(source) ==
  CASE source.type = "Runtime" ->
         [text |-> "as a runtime dependency of chunk", who |-> source.arg]
    [] source.type = "Parent" -> [text |-> "from module", who |-> source.arg]
    [] source.type = "Update" -> [text |-> "from an HMR update", who |-> "-"]

\* loadChunkPath: the Error thrown from the catch block:
\* `Failed to load chunk ${chunkPath} ${loadReason}`, with `{cause: error}`
\* only for a truthy error.
LoadError(chunkPath, source, error) ==
  [chunk |-> chunkPath, reason |-> LoadReason(source).text,
   who |-> LoadReason(source).who,
   cause |-> IF TruthyRejection(error) THEN error ELSE "nocause"]

\* loadChunkPath(source, chunkPath) up to its await: BACKEND.loadChunk has
\* been invoked and the promise of the async function is pending.
PathPromiseMutant(source, chunkPath) ==
  [kind |-> "path", chunk |-> "A", source |-> source, deps |-> <<>>,
   backend |-> "pending", state |-> "pending", err |-> NoErr]
PathPromise(source, chunkPath) ==
  [kind |-> "path", chunk |-> chunkPath, source |-> source, deps |-> <<>>,
   backend |-> "pending", state |-> "pending", err |-> NoErr]

\* Promise.all(deps), `true` entries left out: rejected with the error of the
\* first rejected entry, fulfilled when every entry is, pending otherwise.
PromiseAll(ps, deps) ==
  LET rejected == {i \in 1..Len(deps) : ps[deps[i]].state = "rejected"}
      first == CHOOSE i \in rejected : \A j \in rejected : i <= j
  IN
  [kind |-> "all", chunk |-> "-", source |-> UpdateSource(<<>>), deps |-> deps,
   backend |-> "-",
   state |-> IF rejected # {} THEN "rejected"
             ELSE IF \A i \in 1..Len(deps) : ps[deps[i]].state = "fulfilled"
               THEN "fulfilled" ELSE "pending",
   err |-> IF rejected # {} THEN ps[deps[first]].err ELSE NoErr]

\* The promises after the reactions to a settled promise have run: a pending
\* Promise.all settles with its entries.
RECURSIVE Reactions(_, _)
Reactions(ps, i) ==
  IF i > Len(ps) THEN ps
  ELSE IF ps[i].kind = "all" /\ ps[i].state = "pending"
    THEN Reactions([ps EXCEPT ![i] = PromiseAll(ps, ps[i].deps)], i + 1)
    ELSE Reactions(ps, i + 1)

\* loadChunkPath after BACKEND.loadChunk has settled: the await returns, or the
\* catch block throws the wrapping Error.
PathSettledMutant(promise, outcome) ==
  [promise EXCEPT !.backend = outcome, !.state = "fulfilled"]
PathSettled(promise, outcome) ==
  IF outcome = "ok"
    THEN [promise EXCEPT !.backend = "ok", !.state = "fulfilled"]
    ELSE [promise EXCEPT !.backend = outcome, !.state = "rejected",
                         !.err = LoadError(promise.chunk, promise.source, outcome)]

\* loadChunk: `modulesPromises`
ModulesPromisesMutant(mf, am, includedList) ==
  [i \in 1..Len(includedList) |->
     IF MapHas(am, includedList[i]) THEN am[includedList[i]] ELSE UndefinedValue]
ModulesPromises(mf, am, includedList) ==
  [i \in 1..Len(includedList) |->
     IF MapHas(mf, PropKey(includedList[i])) THEN TrueValue
     ELSE IF MapHas(am, includedList[i]) THEN am[includedList[i]]
     ELSE UndefinedValue]

\* loadChunk: `modulesPromises.length > 0 && modulesPromises.every((p) => p)`
SkipByModulesMutant(modulesPromises) == FALSE
SkipByModulesVacuousMutant(modulesPromises) ==
  \A i \in 1..Len(modulesPromises) : modulesPromises[i] # UndefinedValue
SkipByModules(modulesPromises) ==
  /\ Len(modulesPromises) > 0
  /\ \A i \in 1..Len(modulesPromises) : modulesPromises[i] # UndefinedValue

\* loadChunk: `moduleChunksPromises`, the entries found in availableModuleChunks.
ModuleChunksPromises(amc, list) ==
  LET found == SelectSeq(list, LAMBDA c : MapHas(amc, c)) IN
  [i \in 1..Len(found) |-> amc[found[i]]]

\* loadChunk: `moduleChunksToLoad`, a Set filled in list order.
RECURSIVE ModuleChunksToLoadFrom(_, _, _)
ModuleChunksToLoadFrom(amc, list, acc) ==
  IF list = <<>> THEN acc
  ELSE ModuleChunksToLoadFrom(amc, Tail(list),
         IF MapHas(amc, Head(list)) THEN acc ELSE SetAdd(acc, Head(list)))
ModuleChunksToLoadMutant(amc, list) ==
  ModuleChunksToLoadFrom(EmptyMap, list, <<>>)
ModuleChunksToLoad(amc, list) == ModuleChunksToLoadFrom(amc, list, <<>>)

\* The promises actually awaited by a Promise.all over slots.
PromisesOnlyMutant(slots) == <<>>
PromisesOnly(slots) == SelectSeq(slots, LAMBDA x : x > 0)

\* loadChunk: `if (!map.has(key)) map.set(key, promise)` for each key in order.
RECURSIVE MarkEach(_, _, _)
MarkEachMutant(map, list, promise) ==
  IF list = <<>> \/ MapHas(map, Head(list)) THEN map
  ELSE MapSet(map, Head(list), promise)
MarkEach(map, list, promise) ==
  IF list = <<>> THEN map
  ELSE MarkEach(
         IF MapHas(map, Head(list)) THEN map ELSE MapSet(map, Head(list), promise),
         Tail(list), promise)
MarkLoadingMutant(map, list, promise) == map
MarkLoading(map, list, promise) == MarkEach(map, list, promise)

\* loadChunk: the loop over moduleChunksToLoad, each `loadChunkPath` followed
\* by `availableModuleChunks.set(moduleChunkToLoad, promise)`.
RECURSIVE LoadMissing(_, _, _, _)
LoadMissing(ps, amc, source, toLoad) ==
  IF toLoad = <<>> THEN [promises |-> ps, amc |-> amc]
  ELSE LoadMissing(Append(ps, PathPromise(source, Head(toLoad))),
                   MapSet(amc, Head(toLoad), Len(ps) + 1), source, Tail(toLoad))

\* loadChunk(source, chunkData) up to its return: the maps and promises it
\* leaves, the chunks it asked the backend for, and the promise it returns.
loadChunk(mf, am, amc, ps, source, chunkData) ==
  LET includedList == chunkData.included
      modulesPromises == ModulesPromises(mf, am, includedList)
      includedModuleChunksList == chunkData.moduleChunks
      moduleChunksPromises == ModuleChunksPromises(amc, includedModuleChunksList)
      next == Len(ps) + 1
  IN
  IF chunkData.bare THEN
    [promises |-> Append(ps, PathPromise(source, chunkData.path)),
     am |-> am, amc |-> amc, calls |-> <<chunkData.path>>, result |-> next,
     branch |-> "path"]
  ELSE IF SkipByModules(modulesPromises) THEN
    [promises |-> Append(ps, PromiseAll(ps, PromisesOnly(modulesPromises))),
     am |-> am, amc |-> amc, calls |-> <<>>, result |-> next,
     branch |-> "modules"]
  ELSE IF Len(moduleChunksPromises) > 0
            /\ Len(moduleChunksPromises) = Len(includedModuleChunksList) THEN
    [promises |-> Append(ps, PromiseAll(ps, moduleChunksPromises)),
     am |-> am, amc |-> amc, calls |-> <<>>, result |-> next,
     branch |-> "moduleChunks"]
  ELSE IF Len(moduleChunksPromises) > 0 THEN
    LET toLoad == ModuleChunksToLoad(amc, includedModuleChunksList)
        loaded == LoadMissing(ps, amc, source, toLoad)
        fresh == [i \in 1..Len(toLoad) |-> Len(ps) + i]
        promise == Len(loaded.promises) + 1
    IN
    [promises |-> Append(loaded.promises,
                         PromiseAll(loaded.promises, moduleChunksPromises \o fresh)),
     am |-> MarkLoading(am, includedList, promise),
     amc |-> loaded.amc, calls |-> toLoad, result |-> promise,
     branch |-> "missing"]
  ELSE
    [promises |-> Append(ps, PathPromise(source, chunkData.path)),
     am |-> MarkLoading(am, includedList, next),
     amc |-> MarkLoading(amc, includedModuleChunksList, next),
     calls |-> <<chunkData.path>>, result |-> next, branch |-> "chunk"]

NoLoad ==
  [n |-> 0, chunkData |-> [bare |-> TRUE, path |-> "-", included |-> <<>>,
                           moduleChunks |-> <<>>],
   source |-> UpdateSource(<<>>), calls |-> <<>>, result |-> 0, branch |-> "-",
   allFactories |-> FALSE, modulesSkip |-> FALSE, chunksAvailable |-> {},
   chunksMissing |-> {}, repeated |-> FALSE, newPromises |-> {},
   withFactory |-> {}]

\* ------------------------------------------------------------------ actions
\* History: the memberships of mc, each with its rank by time of addition
\* among the chunks of its module: pairs that were members keep their order, a
\* pair added by this call comes last.
Stamped(mc) ==
  LET pairs == {pr \in ModuleIds \X Chunks :
                  MapHas(mc, pr[1]) /\ pr[2] \in Range(mc[pr[1]])}
      at(pr) == IF pr \in DOMAIN addedAt THEN addedAt[pr]
                ELSE Cardinality(Chunks) + 1
  IN [pr \in pairs |->
        Cardinality({q \in pairs : q[1] = pr[1] /\ at(q) <= at(pr)})]

Init ==
  /\ moduleFactories = EmptyMap
  /\ moduleChunksMap = EmptyMap
  /\ chunkModulesMap = EmptyMap
  /\ firstFactory = EmptyMap
  /\ moduleCache = EmptyMap
  /\ runtimeModules = {}
  /\ stack = <<>>
  /\ exc = "none"
  /\ factoryRuns = [k \in Keys |-> 0]
  /\ created = [k \in Keys |-> 0]
  /\ reinstantiated = [k \in Keys |-> 0]
  /\ nextRid = 1
  /\ nRegs = 0
  /\ nOps = 0
  /\ nCalls = 0
  /\ availableModules = EmptyMap
  /\ availableModuleChunks = EmptyMap
  /\ promises = <<>>
  /\ backendCalls = [c \in Chunks |-> 0]
  /\ fetchedLists = {}
  /\ lastLoad = NoLoad
  /\ nLoads = 0
  /\ addedAt = EmptyMap
  /\ ret = NoRet

\* registerChunk([chunkPath, chunkModules, runtimeParams])
RegisterChunk(chunkPath, chunkModules) ==
  /\ nRegs < MaxRegistrations
  /\ nRegs' = nRegs + 1
  /\ moduleFactories' =
       RegisterFactories(moduleFactories, chunkModules, Entries(chunkModules))
  /\ moduleChunksMap' =
       RegisterModuleChunks(moduleChunksMap, chunkPath, Entries(chunkModules))
  /\ chunkModulesMap' =
       RegisterChunkModules(chunkModulesMap, chunkPath, Entries(chunkModules))
  /\ firstFactory' =
       [k \in (DOMAIN firstFactory) \cup (DOMAIN chunkModules) |->
          IF k \in DOMAIN firstFactory THEN firstFactory[k] ELSE chunkModules[k]]
  /\ ret' = [NoRet EXCEPT
       !.op = "registerChunk", !.chunk = chunkPath,
       !.declared = DOMAIN chunkModules,
       !.conflict = \E k \in DOMAIN chunkModules :
                      MapHas(moduleFactories, k)
                        /\ moduleFactories[k] # chunkModules[k],
       !.backendRegs = 1,
       !.seenFactories =
         BackendRegisterChunkSeen(moduleFactories, moduleChunksMap, chunkPath,
                                  chunkModules).factories,
       !.seenMembers =
         BackendRegisterChunkSeen(moduleFactories, moduleChunksMap, chunkPath,
                                  chunkModules).members]
  /\ addedAt' = Stamped(moduleChunksMap')
  /\ UNCHANGED <<nOps, instVars, loadVars>>

\* addModuleToChunk(moduleId, chunkPath)
AddModuleToChunk(moduleId, chunkPath) ==
  /\ nOps < MaxMembershipOps
  /\ nOps' = nOps + 1
  /\ moduleChunksMap' = AddToModuleChunks(moduleChunksMap, moduleId, chunkPath)
  /\ chunkModulesMap' = AddToChunkModules(chunkModulesMap, moduleId, chunkPath)
  /\ addedAt' = Stamped(moduleChunksMap')
  /\ ret' = [NoRet EXCEPT
       !.op = "addModuleToChunk", !.id = moduleId, !.chunk = chunkPath,
       !.memberBefore =
         (MapHas(moduleChunksMap, moduleId)
            /\ chunkPath \in Range(moduleChunksMap[moduleId])),
       !.changed = (moduleChunksMap' # moduleChunksMap
                      \/ chunkModulesMap' # chunkModulesMap),
       !.readded = (ret.op = "removeModuleFromChunk" /\ ~ret.threw /\ ret.val
                      /\ ret.id = moduleId /\ ret.chunk = chunkPath)]
  /\ UNCHANGED <<registryVars, instVars, loadVars>>

IsMember(mc, moduleId, chunkPath) ==
  MapHas(mc, moduleId) /\ chunkPath \in Range(mc[moduleId])

\* removeModuleFromChunk(moduleId, chunkPath)
RemoveModuleFromChunk(moduleId, chunkPath) ==
  LET threw == RemoveThrows(moduleChunksMap, chunkModulesMap, moduleId, chunkPath) IN
  /\ nOps < MaxMembershipOps
  /\ nOps' = nOps + 1
  /\ moduleChunksMap' =
       RemoveFromModuleChunks(moduleChunksMap, chunkModulesMap, moduleId, chunkPath)
  /\ chunkModulesMap' =
       RemoveFromChunkModules(moduleChunksMap, chunkModulesMap, moduleId, chunkPath)
  /\ addedAt' = Stamped(moduleChunksMap')
  /\ ret' = [NoRet EXCEPT
       !.op = "removeModuleFromChunk", !.id = moduleId, !.chunk = chunkPath,
       !.threw = threw,
       !.val = IF threw THEN FALSE
               ELSE NoRemainingChunks(moduleChunksMap, moduleId, chunkPath),
       !.memberBefore = IsMember(moduleChunksMap, moduleId, chunkPath),
       !.idKnown = \E c \in Chunks \ {chunkPath} :
                     IsMember(moduleChunksMap, moduleId, c),
       !.chunkKnown = \E m \in ModuleIds \ {moduleId} :
                        IsMember(moduleChunksMap, m, chunkPath),
       !.changed = (moduleChunksMap' # moduleChunksMap
                      \/ chunkModulesMap' # chunkModulesMap),
       !.fresh = (ret.op = "registerChunk" /\ ret.chunk = chunkPath
                    /\ PropKey(moduleId) \in ret.declared
                    /\ nRegs = 1 /\ nOps = 0)]
  /\ UNCHANGED <<registryVars, instVars, loadVars>>


\* getFirstModuleChunk(moduleId): a query, nothing is written.
GetFirstModuleChunkCall(moduleId) ==
  /\ nOps < MaxMembershipOps
  /\ nOps' = nOps + 1
  /\ ret' = [NoRet EXCEPT
       !.op = "getFirstModuleChunk", !.id = moduleId,
       !.chunk = GetFirstModuleChunk(moduleChunksMap, moduleId)]
  /\ UNCHANGED <<registryVars, moduleChunksMap, chunkModulesMap, addedAt,
                 instVars, loadVars>>

\* ------------------------------------------------------------- instantiator

\* instantiateModule: the initial `parents` of the new Module.
InitialParents(source) ==
  CASE source.type = "Runtime" -> <<>>
    [] source.type = "Parent" -> <<source.arg>>
    [] source.type = "Update" ->
         IF source.arg = "noParents" THEN <<>> ELSE source.parents

\* instantiateModule: `runtimeModules.add(id)` for a Runtime source only.
RuntimeModulesAfterMutant(rm, id, source) == rm \cup {id}
RuntimeModulesAfter(rm, id, source) ==
  IF source.type = "Runtime" THEN rm \cup {id} ELSE rm

\* instantiateModule: the Module record as created.
NewModule(id, source, rid) ==
  [rid |-> rid, id |-> id, error |-> Undefined, loaded |-> FALSE,
   parents |-> InitialParents(source), children |-> <<>>]

\* instantiateModule: `moduleCache[id] = module`, before the factory is called.
CacheAtCreationMutant(cache, key, module) == cache
CacheAtCreation(cache, key, module) == MapSet(cache, key, module)

\* `typeof moduleFactory !== "function"`
FactoryMissingMutant(mf, key) == FALSE
FactoryMissing(mf, key) == ~MapHas(mf, key)

\* getOrInstantiateRuntimeModule: `if (module)`
RuntimeCachedMutant(cache, key) == FALSE
RuntimeCached(cache, key) == MapHas(cache, key)

\* getOrInstantiateRuntimeModule: `if (module.error) throw module.error`
RethrowsCachedMutant(module) == FALSE
RethrowsCached(module) == Truthy(module.error)

\* getOrInstantiateModuleFromParent: `if (module)`
ParentCached(cache, key) == MapHas(cache, key)

\* getOrInstantiateModuleFromParent: the edge pushes.  `children` and `parents`
\* are arrays searched with indexOf, which compares with ===.
PushIfAbsentMutant(list, x) == Append(list, x)
PushIfAbsent(list, x) == IF x \in Range(list) THEN list ELSE Append(list, x)

\* The cache after `sourceModule.children.push(id)` on the record at srcKey.
WithChild(cache, srcKey, id) ==
  [cache EXCEPT ![srcKey].children = PushIfAbsent(@, id)]

\* The cache after `module.parents.push(sourceModule.id)` on the record at key.
WithParentMutant(cache, key, parentId) == cache
WithParent(cache, key, parentId) ==
  [cache EXCEPT ![key].parents = PushIfAbsent(@, parentId)]

InStack(key) == \E i \in 1..Len(stack) : stack[i].key = key
\* A cached record whose factory has ended without `loaded` being set: it threw.
Failed(key) ==
  MapHas(moduleCache, key) /\ ~InStack(key) /\ ~moduleCache[key].loaded
Top == stack[Len(stack)]
Pop == SubSeq(stack, 1, Len(stack) - 1)

\* instantiateModule(id, source), called with the cache as the caller left it.
\* The factory starts to run (a frame is pushed) or the factory is missing and
\* the call throws.
InstantiateModule(id, source, op, cache, callers) ==
  LET key == PropKey(id) IN
  IF FactoryMissing(moduleFactories, key)
    THEN /\ moduleCache' = cache
         /\ stack' = callers
         /\ exc' = IF callers = <<>> THEN "none" ELSE MissingFactory
         /\ ret' = [NoRet EXCEPT !.op = op, !.id = id, !.threw = TRUE,
                                 !.err = MissingFactory]
         /\ UNCHANGED <<runtimeModules, factoryRuns, created, nextRid>>
    ELSE /\ runtimeModules' = RuntimeModulesAfter(runtimeModules, id, source)
         /\ moduleCache' = CacheAtCreation(cache, key, NewModule(id, source, nextRid))
         /\ nextRid' = nextRid + 1
         /\ created' = [created EXCEPT ![key] = @ + 1]
         /\ factoryRuns' = [factoryRuns EXCEPT ![key] = @ + 1]
         /\ stack' = Append(callers, [key |-> key, rid |-> nextRid, op |-> op,
                                      id |-> id, n |-> 0, source |-> source])
         /\ exc' = "none"
         /\ ret' = [NoRet EXCEPT !.op = "running", !.id = id]

\* instantiateRuntimeModule(moduleId, chunkPath)
InstantiateRuntimeModule(moduleId, chunkPath) ==
  /\ stack = <<>>
  /\ nCalls < MaxRuntimeCalls
  /\ nCalls' = nCalls + 1
  /\ reinstantiated' =
       IF MapHas(moduleCache, PropKey(moduleId))
            /\ ~FactoryMissing(moduleFactories, PropKey(moduleId))
         THEN [reinstantiated EXCEPT ![PropKey(moduleId)] = @ + 1]
         ELSE reinstantiated
  /\ InstantiateModule(moduleId, RuntimeSource(chunkPath),
                       "instantiateRuntimeModule", moduleCache, stack)
  /\ UNCHANGED <<registryVars, chunkVars, loadVars>>

\* instantiateModule(id, source) called with an Update source, as the HMR
\* update code does for a module that is not in the cache (disposed or new).
InstantiateForUpdate(id, source) ==
  /\ stack = <<>>
  /\ nCalls < MaxRuntimeCalls
  /\ nCalls' = nCalls + 1
  /\ ~MapHas(moduleCache, PropKey(id))
  /\ InstantiateModule(id, source, "instantiateModule", moduleCache, stack)
  /\ UNCHANGED <<registryVars, chunkVars, loadVars, reinstantiated>>

\* getOrInstantiateRuntimeModule(moduleId, chunkPath)
GetOrInstantiateRuntimeModule(moduleId, chunkPath) ==
  LET key == PropKey(moduleId) IN
  /\ stack = <<>>
  /\ nCalls < MaxRuntimeCalls
  /\ nCalls' = nCalls + 1
  /\ IF RuntimeCached(moduleCache, key)
       THEN /\ ret' = [NoRet EXCEPT
                 !.op = "getOrInstantiateRuntimeModule", !.id = moduleId,
                 !.hit = TRUE, !.failed = Failed(key),
                 !.runsBefore = factoryRuns[key],
                 !.threw = RethrowsCached(moduleCache[key]),
                 !.err = moduleCache[key].error,
                 !.rid = moduleCache[key].rid,
                 !.loaded = moduleCache[key].loaded]
            /\ UNCHANGED <<moduleCache, runtimeModules, stack, exc, factoryRuns,
                           created, nextRid>>
       ELSE InstantiateModule(moduleId, RuntimeSource(chunkPath),
                              "getOrInstantiateRuntimeModule", moduleCache, stack)
  /\ UNCHANGED <<registryVars, chunkVars, loadVars, reinstantiated>>

\* The running factory requires `id`:
\* getOrInstantiateModuleFromParent(id, sourceModule), sourceModule being the
\* Module of the innermost running factory.
FactoryRequire(id) ==
  LET key == PropKey(id)
      srcKey == Top.key
      sourceModule == moduleCache[srcKey]
      hit == ParentCached(moduleCache, key)
      withChild == WithChild(moduleCache, srcKey, id)
      counted == [stack EXCEPT ![Len(stack)].n = @ + 1]
  IN
  /\ stack # <<>>
  /\ exc = "none"
  /\ Top.n < MaxRequires
  /\ IF hit
       THEN LET cache == WithParent(withChild, key, sourceModule.id) IN
            /\ moduleCache' = cache
            /\ stack' = counted
            /\ ret' = [NoRet EXCEPT
                 !.op = "getOrInstantiateModuleFromParent", !.id = id,
                 !.hit = TRUE, !.failed = Failed(key),
                 !.runsBefore = factoryRuns[key],
                 !.err = cache[key].error, !.rid = cache[key].rid,
                 !.loaded = cache[key].loaded, !.inProgress = InStack(key)]
            /\ UNCHANGED <<runtimeModules, exc, factoryRuns, created, nextRid>>
       ELSE /\ InstantiateModule(id, ParentSource(sourceModule.id),
                                 "getOrInstantiateModuleFromParent", withChild, counted)
  /\ UNCHANGED <<registryVars, chunkVars, loadVars, reinstantiated, nCalls>>

\* The innermost factory returns: `module.loaded = true; return module`.
FactoryReturn ==
  /\ stack # <<>>
  /\ exc = "none"
  /\ moduleCache' = [moduleCache EXCEPT ![Top.key].loaded = TRUE]
  /\ stack' = Pop
  /\ ret' = [NoRet EXCEPT !.op = Top.op, !.id = Top.id, !.rid = Top.rid,
                          !.loaded = TRUE]
  /\ UNCHANGED <<registryVars, chunkVars, loadVars, runtimeModules, exc, factoryRuns,
                 created, reinstantiated, nextRid, nCalls>>

\* The innermost factory ends with `error`:
\* `catch (error) { module.error = error; throw error }`.  The error reaches the
\* factory that required this module, or the caller of the entry point.
ThrowOutMutant(error) ==
  /\ moduleCache' = [moduleCache EXCEPT ![Top.key].loaded = TRUE]
  /\ stack' = Pop
  /\ exc' = IF Pop = <<>> THEN "none" ELSE error
  /\ ret' = [NoRet EXCEPT !.op = Top.op, !.id = Top.id, !.rid = Top.rid,
                          !.threw = TRUE, !.err = error]
  /\ UNCHANGED <<registryVars, chunkVars, loadVars, runtimeModules, factoryRuns, created,
                 reinstantiated, nextRid, nCalls>>
ThrowOut(error) ==
  /\ moduleCache' = [moduleCache EXCEPT ![Top.key].error = error]
  /\ stack' = Pop
  /\ exc' = IF Pop = <<>> THEN "none" ELSE error
  /\ ret' = [NoRet EXCEPT !.op = Top.op, !.id = Top.id, !.rid = Top.rid,
                          !.threw = TRUE, !.err = error]
  /\ UNCHANGED <<registryVars, chunkVars, loadVars, runtimeModules, factoryRuns, created,
                 reinstantiated, nextRid, nCalls>>

\* The innermost factory throws a value of its own.
FactoryThrow(error) ==
  /\ stack # <<>>
  /\ exc = "none"
  /\ ThrowOut(error)

\* A require threw into the innermost factory, which does not catch it.
FactoryPropagate ==
  /\ stack # <<>>
  /\ exc # "none"
  /\ ThrowOut(exc)

\* A require threw into the innermost factory, which catches it and goes on.
FactoryCatch ==
  /\ stack # <<>>
  /\ exc # "none"
  /\ exc' = "none"
  /\ ret' = [NoRet EXCEPT !.op = "catch", !.id = Top.id]
  /\ UNCHANGED <<registryVars, chunkVars, loadVars, moduleCache, runtimeModules, stack,
                 factoryRuns, created, reinstantiated, nextRid, nCalls>>

\* The chunks registered where only instantiation is looked at: one chunk
\* path, one factory, and each registration brings a factory not yet installed.
InstChunkModules == {cm \in ChunkModules : \A k \in DOMAIN cm : cm[k] = "f1"}

\* The Update sources instantiateModule is given: with and without parents.
UpdateSources == {UpdateSource(<<"s2">>), UpdateSourceNoParents}
\* The module an HMR update instantiates.
UpdatedIds == {"s1"}

NextInst ==
  \/ \E cm \in InstChunkModules :
       /\ stack = <<>>
       /\ ~(DOMAIN cm \subseteq DOMAIN moduleFactories)
       /\ RegisterChunk("A", cm)
  \/ \E id \in ModuleIds : InstantiateRuntimeModule(id, "A")
  \/ \E id \in ModuleIds : GetOrInstantiateRuntimeModule(id, "A")
  \/ \E id \in UpdatedIds, source \in UpdateSources : InstantiateForUpdate(id, source)
  \/ \E id \in ModuleIds : FactoryRequire(id)
  \/ FactoryReturn
  \/ \E e \in Thrown : FactoryThrow(e)
  \/ FactoryPropagate
  \/ FactoryCatch

SpecInst == Init /\ [][NextInst]_vars

\* ---------------------------------------------------------- loader actions
\* loadChunk(source, chunkData), from the call to the returned promise; the
\* function does not suspend before it returns.
LoadChunk(source, chunkData) ==
  LET r == loadChunk(moduleFactories, availableModules, availableModuleChunks,
                     promises, source, chunkData)
      listed == Range(chunkData.moduleChunks)
  IN
  /\ stack = <<>>
  /\ nLoads < MaxLoads
  /\ nLoads' = nLoads + 1
  /\ promises' = r.promises
  /\ availableModules' = r.am
  /\ availableModuleChunks' = r.amc
  /\ backendCalls' =
       [c \in Chunks |->
          backendCalls[c] + Cardinality({i \in 1..Len(r.calls) : r.calls[i] = c})]
  /\ fetchedLists' =
       IF ~chunkData.bare /\ r.calls # <<>>
         THEN fetchedLists \cup {chunkData.included} ELSE fetchedLists
  /\ lastLoad' =
       [n |-> nLoads + 1, chunkData |-> chunkData, source |-> source,
        calls |-> r.calls, result |-> r.result, branch |-> r.branch,
        allFactories |->
          \A id \in Range(chunkData.included) :
            MapHas(moduleFactories, PropKey(id)),
        modulesSkip |->
          /\ chunkData.included # <<>>
          /\ \A id \in Range(chunkData.included) :
               MapHas(moduleFactories, PropKey(id)) \/ MapHas(availableModules, id),
        chunksAvailable |-> {c \in listed : MapHas(availableModuleChunks, c)},
        chunksMissing |-> {c \in listed : ~MapHas(availableModuleChunks, c)},
        repeated |-> chunkData.included \in fetchedLists,
        newPromises |-> (Len(promises) + 1)..Len(r.promises),
        withFactory |-> {id \in Range(chunkData.included) :
                           MapHas(moduleFactories, PropKey(id))}]
  /\ UNCHANGED <<registryVars, chunkVars, instVars, ret>>

\* BACKEND.loadChunk settles for one pending loadChunkPath call: `outcome` is
\* "ok" or the value it rejects with.
BackendSettle(p, outcome) ==
  /\ p \in 1..Len(promises)
  /\ promises[p].kind = "path"
  /\ promises[p].backend = "pending"
  /\ promises' = Reactions([promises EXCEPT ![p] = PathSettled(@, outcome)], 1)
  /\ UNCHANGED <<registryVars, chunkVars, instVars, ret, availableModules,
                 availableModuleChunks, backendCalls, fetchedLists, lastLoad,
                 nLoads>>

BackendResolve(p) == BackendSettle(p, "ok")
BackendReject(p, error) == BackendSettle(p, error)

\* The inputs of the loader: bare chunk paths and chunk descriptors.
LoadPaths == {"P"}
IncludedLists == {<<>>, <<"s1">>, <<"n1", "s2">>}
ModuleChunkLists == {<<>>, <<"A">>, <<"B", "A", "B">>}
BarePaths ==
  {[bare |-> TRUE, path |-> "P", included |-> <<>>, moduleChunks |-> <<>>]}
\* Descriptors: without included ids, any of the module chunk lists; the
\* module "1" with its chunk A; the modules 1 and "2" with chunks B, A, B.
Descriptors ==
  {d \in [bare : {FALSE}, path : LoadPaths, included : IncludedLists,
          moduleChunks : ModuleChunkLists] :
     \/ d.included = <<>>
     \/ d.included = <<"s1">> /\ d.moduleChunks = <<"A">>
     \/ d.included = <<"n1", "s2">> /\ d.moduleChunks = <<"B", "A", "B">>}
\* Bare paths are loaded for every kind of source, descriptors by a module.
LoadSources == {RuntimeSource("A"), ParentSource("s1"), UpdateSource(<<>>)}
LoadInputs ==
  (LoadSources \X BarePaths) \cup ({ParentSource("s1")} \X Descriptors)
MaxPromises == 2 * MaxLoads
\* The chunk registered where only loading is looked at; its script is
\* evaluated once.
LoadChunkModules == {cm \in InstChunkModules : DOMAIN cm = {"s1"}}

NextLoad ==
  \/ \E cm \in LoadChunkModules :
       ~MapHas(chunkModulesMap, "P") /\ RegisterChunk("P", cm)
  \/ \E in \in LoadInputs : LoadChunk(in[1], in[2])
  \/ \E p \in 1..MaxPromises : BackendResolve(p)
  \/ \E p \in 1..MaxPromises, e \in RejectValues : BackendReject(p, e)

SpecLoad == Init /\ [][NextLoad]_vars

\* The chunks registered where only the chunk graph is looked at.
TrackedChunks == {"A", "B"}

NextChunks ==
  \/ \E c \in TrackedChunks, cm \in ChunkModules : RegisterChunk(c, cm)
  \/ \E id \in ModuleIds, c \in TrackedChunks : AddModuleToChunk(id, c)
  \/ \E id \in ModuleIds, c \in TrackedChunks : RemoveModuleFromChunk(id, c)
  \/ \E id \in ModuleIds : GetFirstModuleChunkCall(id)

SpecChunks == Init /\ [][NextChunks]_vars

\* ------------------------------------------------------------------ claims
InstantiatingOps ==
  {"instantiateRuntimeModule", "getOrInstantiateRuntimeModule",
   "getOrInstantiateModuleFromParent"}

\* C2 as stated: for every id, whatever the calls to instantiateRuntimeModule,
\* getOrInstantiateRuntimeModule and getOrInstantiateModuleFromParent, the
\* factory is executed at most once and at most one Module record is created.
C2_AtMostOnceAnyCalls ==
  \A k \in Keys : factoryRuns[k] <= 1 /\ created[k] <= 1

\* C2 amended: only instantiateRuntimeModule, which does not read the cache,
\* runs a factory again or replaces a record.  The factory runs and the records
\* created for an id are exactly one for the first instantiation plus one per
\* instantiateRuntimeModule call made on the id while it was cached.
C2_OnceExceptReinstantiation ==
  \A k \in Keys :
    /\ factoryRuns[k] = created[k]
    /\ created[k] = (IF MapHas(moduleCache, k) THEN 1 ELSE 0) + reinstantiated[k]

\* C2 witness: a cached id was asked for again through both get-or entry
\* points' cache paths and its factory has run once.
C2_Witness ==
  /\ ret.op = "getOrInstantiateRuntimeModule"
  /\ ret.hit
  /\ factoryRuns[PropKey(ret.id)] = 1
  /\ moduleCache[PropKey(ret.id)].parents # <<>>

\* C3 as stated: the error of a first instantiation reaches the caller, and
\* every later cache hit on the failed record, through
\* getOrInstantiateRuntimeModule or getOrInstantiateModuleFromParent, rethrows
\* that error without running the factory.
C3_EveryCacheHitRethrows ==
  /\ (ret.op \in InstantiatingOps /\ ~ret.hit /\ ret.threw /\ ret.err # MissingFactory)
       => moduleCache[PropKey(ret.id)].error = ret.err
  /\ (ret.op \in InstantiatingOps /\ ret.hit /\ ret.failed)
       => /\ ret.threw
          /\ ret.err = moduleCache[PropKey(ret.id)].error
          /\ factoryRuns[PropKey(ret.id)] = ret.runsBefore

\* C3 amended: the value a factory throws is recorded on its Module (loaded
\* stays false) and reaches the caller; a later getOrInstantiateRuntimeModule
\* cache hit rethrows the recorded value if and only if it is truthy, and a
\* later getOrInstantiateModuleFromParent cache hit returns the failed record
\* without throwing; neither runs the factory.
C3_StickyErrorOnRuntimeHit ==
  LET key == PropKey(ret.id) IN
  /\ (ret.op \in InstantiatingOps /\ ~ret.hit /\ ret.threw /\ ret.err # MissingFactory)
       => /\ MapHas(moduleCache, key)
          /\ moduleCache[key].rid = ret.rid
          /\ moduleCache[key].error = ret.err
          /\ ~moduleCache[key].loaded
          /\ (stack # <<>> => exc = ret.err)
  /\ (ret.op = "getOrInstantiateRuntimeModule" /\ ret.hit /\ ret.failed)
       => /\ ret.threw <=> Truthy(moduleCache[key].error)
          /\ ret.err = moduleCache[key].error
          /\ ret.rid = moduleCache[key].rid
          /\ factoryRuns[key] = ret.runsBefore
          /\ stack = <<>>
  /\ (ret.op = "getOrInstantiateModuleFromParent" /\ ret.hit /\ ret.failed)
       => /\ ~ret.threw
          /\ ret.rid = moduleCache[key].rid
          /\ ~ret.loaded
          /\ factoryRuns[key] = ret.runsBefore

\* C3 witness: a factory threw errA and a later getOrInstantiateRuntimeModule
\* hit the cache and rethrew it.
C3_Witness ==
  /\ ret.op = "getOrInstantiateRuntimeModule"
  /\ ret.hit /\ ret.failed /\ ret.threw
  /\ ret.err = "errA"

\* C4: while a factory is running its Module is the cached record for its id
\* (inserted before the factory was called, loaded = false), no id is being
\* instantiated twice, and a nested require of an id whose factory is still
\* running returns that same record and runs no factory.
C4_CircularRequire ==
  /\ \A i \in 1..Len(stack) :
       /\ MapHas(moduleCache, stack[i].key)
       /\ moduleCache[stack[i].key].rid = stack[i].rid
       /\ ~moduleCache[stack[i].key].loaded
  /\ \A i, j \in 1..Len(stack) : stack[i].key = stack[j].key => i = j
  /\ (ret.op = "getOrInstantiateModuleFromParent" /\ ret.inProgress)
       => /\ ret.hit /\ ~ret.threw /\ ~ret.loaded
          /\ \E i \in 1..Len(stack) :
               stack[i].key = PropKey(ret.id) /\ stack[i].rid = ret.rid
          /\ factoryRuns[PropKey(ret.id)] = ret.runsBefore

\* C4 witness: A's factory required B, and B's factory has just required A.
C4_Witness ==
  /\ Len(stack) = 2
  /\ ret.op = "getOrInstantiateModuleFromParent"
  /\ ret.inProgress
  /\ PropKey(ret.id) = stack[1].key
  /\ stack[1].key # stack[2].key

\* C5: the factory installed for an id is the one of the first registerChunk
\* that declared it.
C5_FirstRegistrationWins ==
  /\ DOMAIN moduleFactories = DOMAIN firstFactory
  /\ \A k \in DOMAIN firstFactory : moduleFactories[k] = firstFactory[k]

\* C5 witness: a registerChunk has declared an id that already had another
\* factory installed.
C5_Witness == ret.op = "registerChunk" /\ ret.conflict

\* C6 as stated: on a member pair removeModuleFromChunk returns true exactly
\* when no other chunk contains the id, and registerChunk of one chunk
\* declaring id followed by removeModuleFromChunk(id, chunk) returns true.
C6_RemoveReturnsLastChunk ==
  ret.op = "removeModuleFromChunk" =>
    /\ ret.memberBefore => (~ret.threw /\ (ret.val <=> ~ret.idKnown))
    /\ ret.fresh => (~ret.threw /\ ret.val)

\* C7 as stated: removeModuleFromChunk on a pair that is not a member throws.
C7_NonMemberThrows ==
  (ret.op = "removeModuleFromChunk" /\ ~ret.memberBefore) => ret.threw

\* C7 amended: on a non-member pair removeModuleFromChunk throws exactly when
\* the id is in no chunk or the chunk holds no module; when the id is in
\* another chunk and the chunk holds another module it returns false and
\* leaves both maps as they were.
C7_NonMemberThrowsOnlyWithoutEntry ==
  (ret.op = "removeModuleFromChunk" /\ ~ret.memberBefore) =>
    /\ ret.threw <=> ~(ret.idKnown /\ ret.chunkKnown)
    /\ ~ret.val
    /\ ~ret.changed

\* C7 witness: a non-member pair whose id is in another chunk and whose chunk
\* holds another module was removed, and the call returned.
C7_Witness ==
  /\ ret.op = "removeModuleFromChunk"
  /\ ~ret.memberBefore /\ ret.idKnown /\ ret.chunkKnown
  /\ ~ret.threw

PathPromises == {p \in 1..Len(promises) : promises[p].kind = "path"}
DescriptorLoad == lastLoad.n > 0 /\ ~lastLoad.chunkData.bare

C8_AllFactoriesNoFetch ==
  (DescriptorLoad /\ lastLoad.allFactories) => lastLoad.calls = <<>>

\* C8 amended: a descriptor with a non-empty included list all of whose ids
\* have a registered factory causes no BACKEND.loadChunk call and its promise
\* is fulfilled at once; with an empty included list loadChunk goes on to
\* moduleChunks and path.
C8_AllFactoriesNonEmptyNoFetch ==
  (DescriptorLoad /\ lastLoad.allFactories /\ lastLoad.chunkData.included # <<>>)
    => /\ lastLoad.calls = <<>>
       /\ \A c \in Chunks :
            ~\E p \in lastLoad.newPromises :
               promises[p].kind = "path" /\ promises[p].chunk = c
       /\ promises[lastLoad.result].state = "fulfilled"

\* C8 witness: such a descriptor, with module chunks that are not available,
\* was loaded without a backend call.
C8_Witness ==
  /\ DescriptorLoad /\ lastLoad.allFactories
  /\ lastLoad.chunkData.included # <<>>
  /\ lastLoad.chunksMissing # {}
  /\ lastLoad.calls = <<>>

\* C9: a descriptor whose included ids are not all available and whose
\* moduleChunks are partly in availableModuleChunks makes one
\* BACKEND.loadChunk call per missing module chunk and no other, and every
\* missing chunk is in availableModuleChunks, against its own load, when
\* loadChunk returns.
C9_FetchesExactlyMissingSiblings ==
  (DescriptorLoad /\ ~lastLoad.modulesSkip
     /\ lastLoad.chunksAvailable # {} /\ lastLoad.chunksMissing # {})
    => /\ Range(lastLoad.calls) = lastLoad.chunksMissing
       /\ Len(lastLoad.calls) = Cardinality(lastLoad.chunksMissing)
       /\ \A c \in Chunks :
            Cardinality({p \in lastLoad.newPromises :
                           promises[p].kind = "path" /\ promises[p].chunk = c})
              = IF c \in lastLoad.chunksMissing THEN 1 ELSE 0
       /\ \A c \in lastLoad.chunksMissing :
            /\ MapHas(availableModuleChunks, c)
            /\ availableModuleChunks[c] \in lastLoad.newPromises
            /\ promises[availableModuleChunks[c]].kind = "path"
            /\ promises[availableModuleChunks[c]].chunk = c

\* C9 witness: chunk A was available, B was missing and listed twice, and the
\* descriptor's own path is neither.
C9_Witness ==
  /\ DescriptorLoad /\ ~lastLoad.modulesSkip
  /\ lastLoad.chunksAvailable = {"A"} /\ lastLoad.chunksMissing = {"B"}
  /\ lastLoad.chunkData.moduleChunks = <<"B", "A", "B">>
  /\ lastLoad.chunkData.path = "P"
  /\ lastLoad.calls = <<"B">>

\* The reason the claim gives for each source tag.
ClaimedReason(source) ==
  IF source.type = "Runtime" THEN <<"as a runtime dependency of chunk", source.arg>>
  ELSE IF source.type = "Parent" THEN <<"from module", source.arg>>
  ELSE <<"from an HMR update", "-">>

\* C10 as stated: when BACKEND.loadChunk rejects, loadChunkPath rejects with an
\* error naming the chunk and the reason of the source tag, the original error
\* attached as cause, and makes no second backend call.
C10_RejectionWrappedWithCause ==
  /\ \A p \in PathPromises :
       promises[p].backend \in RejectValues
         => /\ promises[p].state = "rejected"
            /\ promises[p].err.chunk = promises[p].chunk
            /\ <<promises[p].err.reason, promises[p].err.who>>
                 = ClaimedReason(promises[p].source)
            /\ promises[p].err.cause = promises[p].backend
  /\ \A c \in Chunks :
       backendCalls[c] = Cardinality({p \in PathPromises : promises[p].chunk = c})

\* C10 amended: as stated, except that the original error is attached as cause
\* only when it is truthy; a falsy rejection value gives an error without cause.
C10_RejectionWrappedCauseIfTruthy ==
  /\ \A p \in PathPromises :
       /\ promises[p].backend \in RejectValues
            => /\ promises[p].state = "rejected"
               /\ promises[p].err.chunk = promises[p].chunk
               /\ <<promises[p].err.reason, promises[p].err.who>>
                    = ClaimedReason(promises[p].source)
               /\ promises[p].err.cause =
                    IF promises[p].backend = "null" THEN "nocause"
                    ELSE promises[p].backend
       /\ promises[p].backend = "ok" => promises[p].state = "fulfilled"
       /\ promises[p].backend = "pending" => promises[p].state = "pending"
  /\ \A c \in Chunks :
       backendCalls[c] = Cardinality({p \in PathPromises : promises[p].chunk = c})

\* C10 witness: a load made for a chunk's runtime and a load made for a module
\* have both been rejected by the backend.
C10_Witness ==
  /\ \E p \in PathPromises :
       promises[p].backend = "netErr" /\ promises[p].source.type = "Runtime"
  /\ \E p \in PathPromises :
       promises[p].backend = "netErr" /\ promises[p].source.type = "Parent"

\* A step in which an instantiation request found no factory and threw.
MissingFactoryStep ==
  /\ ret'.op \in InstantiatingOps
  /\ ret'.threw /\ ~ret'.hit /\ ret'.rid = 0
  /\ ret'.err = MissingFactory
  /\ (nCalls' = nCalls + 1 \/ (stack # <<>> /\ stack' # stack))

\* C11: a request to instantiate an id without a registered factory throws in
\* the same step (no factory starts to run; inside a factory the error is
\* raised at the require), leaves runtimeModules and the module cache as they
\* were and creates no Module record; through getOrInstantiateModuleFromParent
\* the one change is that the id is in the children of the requiring module.
\* No Module record ever exists for an id without a factory.
C11_MissingFactoryThrows ==
  [][/\ \A k \in DOMAIN moduleCache' : MapHas(moduleFactories', k)
     /\ MissingFactoryStep =>
          /\ ~MapHas(moduleFactories, PropKey(ret'.id))
          /\ runtimeModules' = runtimeModules
          /\ created' = created /\ factoryRuns' = factoryRuns
          /\ nextRid' = nextRid
          /\ Len(stack') = Len(stack)
          /\ IF ret'.op = "getOrInstantiateModuleFromParent"
               THEN /\ exc' = MissingFactory
                    /\ DOMAIN moduleCache' = DOMAIN moduleCache
                    /\ \A k \in DOMAIN moduleCache :
                         IF k = Top.key
                           THEN /\ ret'.id \in Range(moduleCache'[k].children)
                                /\ Range(moduleCache'[k].children)
                                     = Range(moduleCache[k].children) \cup {ret'.id}
                                /\ [moduleCache'[k] EXCEPT !.children = <<>>]
                                     = [moduleCache[k] EXCEPT !.children = <<>>]
                           ELSE moduleCache'[k] = moduleCache[k]
               ELSE /\ moduleCache' = moduleCache
                    /\ stack' = <<>>]_vars

\* C11 witness: a running factory required an id that has no factory; the
\* require threw, the id is among the children of the requiring module and has
\* no Module record.
C11_Witness ==
  /\ stack # <<>>
  /\ ret.op = "getOrInstantiateModuleFromParent"
  /\ ret.threw /\ ret.err = MissingFactory /\ ret.rid = 0
  /\ exc = MissingFactory
  /\ ret.id \in Range(moduleCache[Top.key].children)
  /\ ~MapHas(moduleCache, PropKey(ret.id))

\* C12: when getOrInstantiateModuleFromParent(id, sourceModule) returns a
\* Module, on a cache hit or after the factory of a fresh instantiation has
\* returned, id is in sourceModule.children and sourceModule.id is in the
\* parents of the returned Module, which is the cached record for id.  When a
\* module entered as a runtime module required one other module, which
\* required nothing, the first has exactly that child and the second exactly
\* that parent.
C12_BothEdgesRecorded ==
  /\ (ret.op = "getOrInstantiateModuleFromParent" /\ ~ret.threw
        /\ (ret.hit \/ ret.loaded))
       => /\ stack # <<>>
          /\ MapHas(moduleCache, PropKey(ret.id))
          /\ moduleCache[PropKey(ret.id)].rid = ret.rid
          /\ ret.id \in Range(moduleCache[Top.key].children)
          /\ moduleCache[Top.key].id \in Range(moduleCache[PropKey(ret.id)].parents)
  /\ (/\ stack = <<>> /\ nCalls = 1 /\ ~ret.hit /\ ret.loaded
      /\ ret.op \in {"instantiateRuntimeModule", "getOrInstantiateRuntimeModule"}
      /\ Len(moduleCache[PropKey(ret.id)].children) = 1
      /\ PropKey(moduleCache[PropKey(ret.id)].children[1]) # PropKey(ret.id))
       => LET child == PropKey(moduleCache[PropKey(ret.id)].children[1]) IN
          (MapHas(moduleCache, child) /\ moduleCache[child].children = <<>>)
            => moduleCache[child].parents = <<ret.id>>

\* C12 witness: a running factory required a module that was loaded earlier
\* for another reason; the call hit the cache and the requiring module is now
\* the one parent of the returned Module.
C12_Witness ==
  /\ stack # <<>>
  /\ ret.op = "getOrInstantiateModuleFromParent"
  /\ ret.hit /\ ret.loaded
  /\ moduleCache[PropKey(ret.id)].parents = <<moduleCache[Top.key].id>>
  /\ ret.id \in Range(moduleCache[Top.key].children)

\* A step that is a loadChunk call for a descriptor and asked the backend.
DescriptorFetchStep ==
  /\ nLoads' = nLoads + 1
  /\ ~lastLoad'.chunkData.bare
  /\ lastLoad'.calls # <<>>

\* C13: loadChunk runs from its availability check to its return without
\* suspending; when the call that fetches for a descriptor has returned, every
\* included id that had no entry in availableModules has one, the promise the
\* call returned, which is or waits for a fetch the call started; ids
\* that had an entry keep it.  So in every state every id of an included list
\* that was fetched for has an entry.
C13_MarkedBeforeSuspension ==
  [][/\ \A list \in fetchedLists' : Range(list) \subseteq DOMAIN availableModules'
     /\ DescriptorFetchStep =>
          \A id \in Range(lastLoad'.chunkData.included) :
            IF MapHas(availableModules, id)
              THEN availableModules'[id] = availableModules[id]
              ELSE /\ MapHas(availableModules', id)
                   /\ availableModules'[id] = lastLoad'.result
                   /\ \/ promises'[lastLoad'.result].kind = "path"
                      \/ \E d \in Range(promises'[lastLoad'.result].deps) :
                           d \in lastLoad'.newPromises]_vars

\* C13 witness: a descriptor with two included ids, neither known before, was
\* fetched for, and both ids are in flight against the returned promise.
C13_Witness ==
  /\ DescriptorLoad /\ lastLoad.calls # <<>>
  /\ lastLoad.chunkData.included = <<"n1", "s2">>
  /\ MapHas(availableModules, "n1") /\ MapHas(availableModules, "s2")
  /\ availableModules["n1"] = lastLoad.result
  /\ availableModules["s2"] = lastLoad.result
  /\ promises[lastLoad.result].state = "pending"

\* The last loadChunk call returned at one of the two short-circuits, and the
\* entries it found: for the included ids without a factory, or for the listed
\* module chunks.
ShortCircuitLoad ==
  DescriptorLoad /\ lastLoad.branch \in {"modules", "moduleChunks"}
ShortCircuitEntries ==
  IF lastLoad.branch = "modules"
    THEN {availableModules[id] :
            id \in Range(lastLoad.chunkData.included) \ lastLoad.withFactory}
    ELSE {availableModuleChunks[c] : c \in Range(lastLoad.chunkData.moduleChunks)}

\* C14 as stated: a short-circuiting loadChunk call makes no backend call,
\* does not complete before every load it depends on has completed, and fails
\* if one of them fails.
C14_CompletesAfterEveryLoad ==
  ShortCircuitLoad =>
    LET res == promises[lastLoad.result] IN
    /\ lastLoad.calls = <<>>
    /\ res.state # "pending"
         => \A d \in ShortCircuitEntries : promises[d].state # "pending"
    /\ (\E d \in ShortCircuitEntries : promises[d].state = "rejected")
         => res.state = "rejected"

\* C14 amended: a short-circuiting loadChunk call makes no backend call and
\* returns Promise.all over the entries it found: it succeeds exactly when
\* every one of those loads has succeeded, and it fails as soon as one of them
\* has failed, with that failure, also while others are still in flight.
C14_ShortCircuitIsPromiseAll ==
  ShortCircuitLoad =>
    LET res == promises[lastLoad.result] IN
    /\ lastLoad.calls = <<>>
    /\ lastLoad.newPromises = {lastLoad.result}
    /\ res.kind = "all"
    /\ Range(res.deps) = ShortCircuitEntries
    /\ res.state = "fulfilled"
         <=> \A d \in ShortCircuitEntries : promises[d].state = "fulfilled"
    /\ res.state = "rejected"
         <=> \E d \in ShortCircuitEntries : promises[d].state = "rejected"
    /\ res.state = "rejected"
         => \E d \in ShortCircuitEntries :
              promises[d].state = "rejected" /\ promises[d].err = res.err

\* C14 witness: a short-circuited call waits for two loads; one has failed,
\* the other is still in flight, and the call has failed.
C14_Witness ==
  /\ ShortCircuitLoad
  /\ promises[lastLoad.result].state = "rejected"
  /\ \E d \in ShortCircuitEntries : promises[d].state = "pending"
  /\ \E d \in ShortCircuitEntries : promises[d].state = "rejected"

\* C15: a descriptor whose included ids are not all available and none of
\* whose module chunks is in availableModuleChunks makes one BACKEND.loadChunk
\* call, for the descriptor's path, and when loadChunk returns every listed
\* module chunk is in availableModuleChunks against the promise of that one
\* fetch, which is the promise returned.
C15_FallbackFetchesPathOnce ==
  (DescriptorLoad /\ ~lastLoad.modulesSkip /\ lastLoad.chunksAvailable = {})
    => /\ lastLoad.calls = <<lastLoad.chunkData.path>>
       /\ lastLoad.newPromises = {lastLoad.result}
       /\ promises[lastLoad.result].kind = "path"
       /\ promises[lastLoad.result].chunk = lastLoad.chunkData.path
       /\ \A c \in Range(lastLoad.chunkData.moduleChunks) :
            /\ MapHas(availableModuleChunks, c)
            /\ availableModuleChunks[c] = lastLoad.result

\* C15 witness: such a descriptor listing chunks A and B, B twice, with an
\* included id that is not available, was loaded by one fetch of its path.
C15_Witness ==
  /\ DescriptorLoad /\ ~lastLoad.modulesSkip /\ lastLoad.chunksAvailable = {}
  /\ lastLoad.chunkData.included # <<>>
  /\ lastLoad.chunkData.moduleChunks = <<"B", "A", "B">>
  /\ lastLoad.calls = <<"P">>
  /\ availableModuleChunks["A"] = lastLoad.result
  /\ availableModuleChunks["B"] = lastLoad.result
  /\ promises[lastLoad.result].state = "fulfilled"

\* No entry of availableModules or availableModuleChunks is removed or replaced
\* in this step.
EntriesKept ==
  /\ \A id \in DOMAIN availableModules :
       MapHas(availableModules', id) /\ availableModules'[id] = availableModules[id]
  /\ \A c \in DOMAIN availableModuleChunks :
       /\ MapHas(availableModuleChunks', c)
       /\ availableModuleChunks'[c] = availableModuleChunks[c]

\* A step that is a loadChunk call for a descriptor with a non-empty included
\* list.
IncludedLoadStep ==
  /\ nLoads' = nLoads + 1
  /\ ~lastLoad'.chunkData.bare
  /\ lastLoad'.chunkData.included # <<>>

\* The included ids of the call whose entry is a load that has failed.
FailedEntries ==
  {id \in Range(lastLoad'.chunkData.included) :
     MapHas(availableModules, id) /\ promises[availableModules[id]].state = "rejected"}

\* C16 as stated: entries are never removed or replaced, and once the fetch
\* the entries of its included ids refer to has failed, a loadChunk call makes
\* no backend call and fails with that failure.
C16_FailedLoadFailsLaterCalls ==
  [][/\ EntriesKept
     /\ (IncludedLoadStep /\ FailedEntries = Range(lastLoad'.chunkData.included))
          => /\ lastLoad'.calls = <<>>
             /\ backendCalls' = backendCalls
             /\ promises'[lastLoad'.result].state = "rejected"
             /\ \E id \in FailedEntries :
                  promises'[lastLoad'.result].err = promises[availableModules[id]].err]_vars

\* C16 amended: entries are never removed or replaced.  A loadChunk call for a
\* non-empty included list each id of which has a registered factory or an
\* entry makes no backend call; an id with a registered factory counts as
\* loaded whatever its entry, and the call fails, with the failure recorded,
\* exactly when one of the other ids has an entry whose load has failed.
C16_FailedLoadNotRetried ==
  [][/\ EntriesKept
     /\ (/\ IncludedLoadStep
         /\ \A id \in Range(lastLoad'.chunkData.included) :
              MapHas(moduleFactories, PropKey(id)) \/ MapHas(availableModules, id))
          => LET counted == {id \in FailedEntries : ~MapHas(moduleFactories, PropKey(id))}
                 res == promises'[lastLoad'.result]
             IN
             /\ lastLoad'.calls = <<>>
             /\ backendCalls' = backendCalls
             /\ \A p \in 1..Len(promises) : promises'[p] = promises[p]
             /\ res.state = "rejected" <=> counted # {}
             /\ counted # {}
                  => \E id \in counted : res.err = promises[availableModules[id]].err
             /\ (\A id \in Range(lastLoad'.chunkData.included) :
                   MapHas(moduleFactories, PropKey(id)))
                  => res.state = "fulfilled"]_vars

\* C16 witness: the fetch for a descriptor failed and a later call for the
\* same included ids made no backend call and has failed with that failure.
C16_Witness ==
  /\ DescriptorLoad /\ lastLoad.branch = "modules"
  /\ lastLoad.withFactory = {}
  /\ lastLoad.calls = <<>>
  /\ promises[lastLoad.result].state = "rejected"
  /\ \A id \in Range(lastLoad.chunkData.included) :
       /\ promises[availableModules[id]].state = "rejected"
       /\ promises[availableModules[id]].err = promises[lastLoad.result].err
       /\ promises[availableModules[id]].kind = "path"
       /\ promises[availableModules[id]].backend = "netErr"
  /\ backendCalls["P"] = 1

\* A step that is a loadChunk call given a bare path or a descriptor without
\* included ids and without module chunks.
PlainLoadStep ==
  /\ nLoads' = nLoads + 1
  /\ \/ lastLoad'.chunkData.bare
     \/ /\ lastLoad'.chunkData.included = <<>>
        /\ lastLoad'.chunkData.moduleChunks = <<>>

\* C17: loadChunk given a bare chunk path, or a descriptor with neither
\* included ids nor module chunks, calls BACKEND.loadChunk once, for the path,
\* whatever the maps hold and however often the path was asked for, returns
\* the promise of that call and leaves availableModules and
\* availableModuleChunks as they were.
C17_PlainPathAlwaysFetched ==
  [][PlainLoadStep =>
       LET path == lastLoad'.chunkData.path IN
       /\ lastLoad'.calls = <<path>>
       /\ backendCalls' = [backendCalls EXCEPT ![path] = @ + 1]
       /\ availableModules' = availableModules
       /\ availableModuleChunks' = availableModuleChunks
       /\ promises' = Append(promises, promises'[Len(promises')])
       /\ lastLoad'.result = Len(promises')
       /\ promises'[lastLoad'.result].kind = "path"
       /\ promises'[lastLoad'.result].chunk = path
       /\ promises'[lastLoad'.result].backend = "pending"]_vars

\* C17 witness: a descriptor without included ids and module chunks was loaded
\* while the maps held entries and an earlier fetch of the same path was still
\* in flight; the path was fetched again.
C17_Witness ==
  /\ DescriptorLoad
  /\ lastLoad.chunkData.included = <<>> /\ lastLoad.chunkData.moduleChunks = <<>>
  /\ lastLoad.calls = <<"P">>
  /\ DOMAIN availableModules # {} /\ DOMAIN availableModuleChunks # {}
  /\ \E p \in PathPromises :
       /\ p # lastLoad.result
       /\ promises[p].chunk = "P" /\ promises[p].backend = "pending"
  /\ promises[lastLoad.result].backend = "pending"

\* Every cached record in the next state: never both an error and loaded, and
\* neither while its factory is running.
RecordsSound ==
  \A k \in DOMAIN moduleCache' :
    /\ ~(moduleCache'[k].loaded /\ moduleCache'[k].error # Undefined)
    /\ (\E i \in 1..Len(stack') : stack'[i].key = k)
         => ~moduleCache'[k].loaded /\ moduleCache'[k].error = Undefined

\* A record is loaded in the next state and was not before: the step is the
\* return of its factory.
LoadedOnlyByReturn ==
  \A k \in DOMAIN moduleCache' :
    (/\ moduleCache'[k].loaded
     /\ ~(MapHas(moduleCache, k) /\ moduleCache[k].rid = moduleCache'[k].rid
            /\ moduleCache[k].loaded))
      => /\ stack # <<>> /\ exc = "none"
         /\ Top.key = k /\ Top.rid = moduleCache'[k].rid
         /\ stack' = Pop
         /\ ~ret'.threw

\* The step is a factory ending with an exception: its record is cached with
\* the thrown value as error and loaded = false.
ThrowRecorded ==
  (ret'.threw /\ ~ret'.hit /\ ret'.rid # 0 /\ stack # <<>> /\ stack' = Pop)
    => /\ MapHas(moduleCache', Top.key)
       /\ moduleCache'[Top.key].rid = Top.rid /\ ret'.rid = Top.rid
       /\ moduleCache'[Top.key].error = ret'.err
       /\ ~moduleCache'[Top.key].loaded

\* C18 as stated: loaded is set only by the return of the factory, a factory's
\* exception is recorded as error with loaded = false, no record has both, and
\* a record whose factory threw remains the cached record of its id.
C18_FailedRecordRemains ==
  [][/\ RecordsSound /\ LoadedOnlyByReturn /\ ThrowRecorded
     /\ \A k \in DOMAIN moduleCache :
          Failed(k) => /\ MapHas(moduleCache', k)
                       /\ moduleCache'[k].rid = moduleCache[k].rid
                       /\ moduleCache'[k].error = moduleCache[k].error
                       /\ ~moduleCache'[k].loaded]_vars

\* C18 amended: as stated, except that a record whose factory threw remains
\* the cached record of its id, with its error and loaded = false, until an
\* instantiateRuntimeModule call on that id replaces it by a new record.
C18_FailedRecordKeptUntilReinstantiated ==
  [][/\ RecordsSound /\ LoadedOnlyByReturn /\ ThrowRecorded
     /\ \A k \in DOMAIN moduleCache :
          Failed(k) =>
            /\ MapHas(moduleCache', k)
            /\ IF moduleCache'[k].rid = moduleCache[k].rid
                 THEN /\ moduleCache'[k].error = moduleCache[k].error
                      /\ ~moduleCache'[k].loaded
                 ELSE /\ nCalls' = nCalls + 1
                      /\ reinstantiated'[k] = reinstantiated[k] + 1
                      /\ moduleCache'[k].rid = nextRid
                      /\ moduleCache'[k].error = Undefined
                      /\ ~moduleCache'[k].loaded]_vars

\* C18 witness: one module's factory threw errA and its record is cached with
\* that error and loaded = false, while another module is loaded.
C18_Witness ==
  /\ stack = <<>>
  /\ \E k \in DOMAIN moduleCache :
       Failed(k) /\ moduleCache[k].error = "errA"
  /\ \E k \in DOMAIN moduleCache :
       moduleCache[k].loaded /\ moduleCache[k].error = Undefined

NoDuplicates(list) ==
  \A i, j \in 1..Len(list) : list[i] = list[j] => i = j

\* C19: whatever requires were made (hits, misses, the same child required
\* again by the same parent, circular requires), no Module's children and no
\* Module's parents holds the same id twice; ids are compared as indexOf
\* compares them, so the number 1 and the string "1" are two ids.
C19_EdgesDeduplicated ==
  \A k \in DOMAIN moduleCache :
    /\ NoDuplicates(moduleCache[k].children)
    /\ NoDuplicates(moduleCache[k].parents)

\* C19 witness: a running factory has required the same, already cached,
\* module twice; it has that one child and the child has that one parent.
C19_Witness ==
  /\ stack # <<>>
  /\ Top.n = 2
  /\ ret.op = "getOrInstantiateModuleFromParent" /\ ret.hit
  /\ moduleCache[Top.key].children = <<ret.id>>
  /\ moduleCache[PropKey(ret.id)].parents = <<moduleCache[Top.key].id>>
  /\ PropKey(ret.id) # Top.key

\* The parents the claim gives a new Module, by the source of the call.
ClaimedParents(source) ==
  IF source.type = "Runtime" THEN <<>>
  ELSE IF source.type = "Parent" THEN <<source.arg>>
  ELSE IF source = UpdateSourceNoParents THEN <<>>
  ELSE source.parents

\* C20: a step that creates a Module creates it with the parents of its
\* source (none for Runtime, the requiring module for Parent, the given
\* parents or none for Update) and adds its id to runtimeModules exactly when
\* the source is Runtime; no other step, and so no call that finds no factory,
\* changes runtimeModules.
C20_InitialParentsBySource ==
  [][IF nextRid' = nextRid + 1
       THEN LET frame == stack'[Len(stack')] IN
            /\ Len(stack') = Len(stack) + 1
            /\ frame.rid = nextRid
            /\ MapHas(moduleFactories, frame.key)
            /\ moduleCache'[frame.key].rid = nextRid
            /\ moduleCache'[frame.key].id = frame.id
            /\ moduleCache'[frame.key].parents = ClaimedParents(frame.source)
            /\ moduleCache'[frame.key].children = <<>>
            /\ frame.op \in {"instantiateRuntimeModule", "getOrInstantiateRuntimeModule"}
                 <=> frame.source.type = "Runtime"
            /\ frame.op = "getOrInstantiateModuleFromParent"
                 <=> frame.source.type = "Parent"
            /\ frame.source.type = "Parent"
                 => /\ stack # <<>>
                    /\ frame.source.arg = moduleCache[Top.key].id
            /\ frame.op = "instantiateModule" <=> frame.source.type = "Update"
            /\ runtimeModules' =
                 IF frame.source.type = "Runtime"
                   THEN runtimeModules \cup {frame.id} ELSE runtimeModules
       ELSE runtimeModules' = runtimeModules]_vars

\* C20 witness: after a module was entered as a runtime module, another was
\* instantiated for an update with one parent given; it has that parent and
\* is not among the runtime modules.
C20_Witness ==
  /\ stack = <<>>
  /\ ret.op = "instantiateModule" /\ ret.loaded
  /\ moduleCache[PropKey(ret.id)].rid = ret.rid
  /\ moduleCache[PropKey(ret.id)].parents = <<"s2">>
  /\ ret.id \notin runtimeModules
  /\ runtimeModules = {"s2"}
  /\ moduleCache["s2"].parents = <<>>

\* C21: a registerChunk call invokes BACKEND.registerChunk once, last: the
\* backend finds a factory installed and the membership in the chunk recorded
\* for every module the chunk declares, also for those whose factory was
\* ignored, and nothing changes between that call and the return.
C21_BackendRegisteredAfterFactories ==
  ret.op = "registerChunk" =>
    /\ ret.backendRegs = 1
    /\ ret.declared # {}
    /\ ret.declared \subseteq ret.seenFactories
    /\ ret.declared \subseteq ret.seenMembers
    /\ ret.seenFactories = DOMAIN moduleFactories
    /\ ret.seenMembers = {k \in DOMAIN moduleChunksMap :
                            ret.chunk \in Range(moduleChunksMap[k])}
    /\ \A k \in ret.declared :
         /\ MapHas(chunkModulesMap, ret.chunk)
         /\ k \in Range(chunkModulesMap[ret.chunk])

\* C21 witness: a second chunk declared two modules, one of which already had
\* another factory; the backend found both with a factory and as members.
C21_Witness ==
  /\ ret.op = "registerChunk" /\ ret.conflict
  /\ nRegs = 2
  /\ ret.declared = {"s1", "s2"}
  /\ ret.declared \subseteq ret.seenMembers
  /\ \E k \in ret.declared : moduleChunksMap[k] = <<ret.chunk>>
  /\ \E k \in ret.declared : Len(moduleChunksMap[k]) = 2

\* C22: the two membership maps mirror each other (chunk c is in the chunks
\* of module m exactly when m is in the modules of c), neither holds an entry
\* with an empty set, and the sets hold no element twice.
C22_MembershipMapsMirror ==
  /\ \A m \in ModuleIds, c \in Chunks :
       (MapHas(moduleChunksMap, m) /\ c \in Range(moduleChunksMap[m]))
         <=> (MapHas(chunkModulesMap, c) /\ m \in Range(chunkModulesMap[c]))
  /\ \A m \in DOMAIN moduleChunksMap :
       /\ moduleChunksMap[m] # <<>>
       /\ \A i, j \in 1..Len(moduleChunksMap[m]) :
            moduleChunksMap[m][i] = moduleChunksMap[m][j] => i = j
  /\ \A c \in DOMAIN chunkModulesMap :
       /\ chunkModulesMap[c] # <<>>
       /\ \A i, j \in 1..Len(chunkModulesMap[c]) :
            chunkModulesMap[c][i] = chunkModulesMap[c][j] => i = j

\* C22 witness: a module in two chunks was removed from one of them, in which
\* it was the only module: the chunk's entry is gone, the module's is not.
C22_Witness ==
  /\ ret.op = "removeModuleFromChunk"
  /\ ret.memberBefore /\ ~ret.threw /\ ~ret.val
  /\ ~MapHas(chunkModulesMap, ret.chunk)
  /\ MapHas(moduleChunksMap, ret.id)
  /\ ret.chunk \notin Range(moduleChunksMap[ret.id])

\* C23: addModuleToChunk is idempotent: on every reachable pair of maps a
\* second call with the same pair changes nothing, and a call on a pair that
\* is a member leaves the maps as they were.  After removeModuleFromChunk(id,
\* chunk) returned true, addModuleToChunk(id, chunk) leaves id a member of
\* that chunk and no other, as after a first addition.
C23_AddIdempotentAndRoundTrip ==
  /\ \A m \in ModuleIds, c \in TrackedChunks :
       LET mc1 == AddToModuleChunks(moduleChunksMap, m, c)
           cm1 == AddToChunkModules(chunkModulesMap, m, c)
       IN /\ AddToModuleChunks(mc1, m, c) = mc1
          /\ AddToChunkModules(cm1, m, c) = cm1
  /\ (ret.op = "addModuleToChunk" /\ ret.memberBefore) => ~ret.changed
  /\ (ret.op = "addModuleToChunk" /\ ret.readded)
       => /\ ~ret.memberBefore /\ ret.changed
          /\ MapHas(moduleChunksMap, ret.id)
          /\ moduleChunksMap[ret.id] = <<ret.chunk>>
          /\ {c \in DOMAIN chunkModulesMap : ret.id \in Range(chunkModulesMap[c])}
               = {ret.chunk}
          /\ moduleChunksMap =
               AddToModuleChunks(MapDelete(moduleChunksMap, ret.id), ret.id, ret.chunk)

\* C23 witness: a module was removed from its only chunk, which holds another
\* module, the removal returned true, and the module was added to it again.
C23_Witness ==
  /\ ret.op = "addModuleToChunk" /\ ret.readded
  /\ moduleChunksMap[ret.id] = <<ret.chunk>>
  /\ Len(chunkModulesMap[ret.chunk]) = 2

\* The chunks that contain the module now, by the history of additions and
\* removals.
ChunksContaining(m) == {c \in Chunks : <<m, c>> \in DOMAIN addedAt}

\* The answer the claim gives for a module: null when no chunk contains it,
\* else the chunk, among those containing it, whose addition is the earliest.
IsClaimedFirstChunk(m, answer) ==
  IF ChunksContaining(m) = {}
    THEN answer = "null"
    ELSE /\ answer \in ChunksContaining(m)
         /\ \A c \in ChunksContaining(m) : addedAt[<<m, answer>>] <= addedAt[<<m, c>>]

\* C24: in every state getFirstModuleChunk(id) is null exactly when no chunk
\* contains id, and otherwise is the chunk that, among those containing id
\* now, was added first; a chunk id was removed from is never returned; and
\* each call returned that answer.
C24_FirstChunkIsEarliestRemaining ==
  /\ \A m \in ModuleIds :
       /\ IsClaimedFirstChunk(m, GetFirstModuleChunk(moduleChunksMap, m))
       /\ GetFirstModuleChunk(moduleChunksMap, m) = "null"
            <=> \A c \in Chunks :
                  ~(MapHas(chunkModulesMap, c) /\ m \in Range(chunkModulesMap[c]))
  /\ ret.op = "getFirstModuleChunk" => IsClaimedFirstChunk(ret.id, ret.chunk)

\* C24 witness: module "1" came with chunk B and then with chunk A; asked for
\* its first chunk, the answer was B, the earlier of the two.
C24_Witness ==
  /\ ret.op = "getFirstModuleChunk" /\ ret.id = "s1"
  /\ ret.chunk = "B"
  /\ ChunksContaining("s1") = {"A", "B"}
  /\ addedAt[<<"s1", "B">>] = 1 /\ addedAt[<<"s1", "A">>] = 2

Next == NextChunks \/ NextInst \/ NextLoad
Spec == Init /\ [][Next]_vars

====
